---- MODULE Spec2Model ----
(***************************************************************************)
(* A model of yadsec (src/yadsec.go, the Yadsec type): one pass of         *)
(* Yadsec.load over a record whose fields carry `env:"KEY[,option...]"`    *)
(* tags.  Go strings are sequences of one-character strings, so that       *)
(* concatenation (key + "__FILE", secretsDir + secretName), strings.Split, *)
(* strings.TrimPrefix, strings.TrimSpace, fs.ValidPath, strconv.Atoi and   *)
(* strconv.ParseBool are computed character by character.                  *)
(***************************************************************************)
EXTENDS Integers, Sequences, FiniteSets, TLC

VARIABLES
    shape,    \* the record's fields in declaration order: [tag, kind, prior]
    ctx,      \* the Yadsec value: [secretsDir, files, zeroReadEOF]
    env0,     \* the process environment when the pass starts
    env,      \* the process environment (os.Setenv / os.Unsetenv / os.LookupEnv)
    fields,   \* the record's field values
    idx,      \* the loop variable i of load, 1-based
    status,   \* "running" | "ok" (load returned nil) | "error"
    err,      \* the kind of the error load returned ("none" while there is none)
    log       \* history: one entry per loop iteration

vars == <<shape, ctx, env0, env, fields, idx, status, err, log>>

----------------------------------------------------------------------------
(* Bounds of the model *)

MaxFields == 2

MaxPathLen == 3

MaxContentLen == 2

----------------------------------------------------------------------------
(* String literals of the program and of the modelled inputs *)

fileVarSuffix == <<"_", "_", "F", "I", "L", "E">>

secretVarSuffix == <<"_", "_", "S", "E", "C", "R", "E", "T">>

defaultSecretsDir == <<"/", "r", "u", "n", "/", "s", "e", "c", "r", "e", "t", "s", "/">>

testSecretsDir == <<"s", "e", "c", "r", "e", "t", "s", "/">>

sRequired == <<"r", "e", "q", "u", "i", "r", "e", "d">>

sSTR == <<"S", "T", "R">>

sOptional == <<"o", "p", "t">>

sSep == ","

sOne == <<"1">>

sX == <<"x">>

sOld == <<"o", "l", "d">>

----------------------------------------------------------------------------
(* Library functions the program calls, computed on character sequences *)

\* strings.TrimPrefix(path, "/")
TrimPrefixSlash(s) ==
    IF Len(s) > 0 /\ Head(s) = "/" THEN Tail(s) ELSE s

IsSpace(c) == c \in {" ", "\n", "\t", "\r"}

RECURSIVE TrimLeft(_)
TrimLeft(s) ==
    IF Len(s) > 0 /\ IsSpace(Head(s)) THEN TrimLeft(Tail(s)) ELSE s

RECURSIVE TrimRight(_)
TrimRight(s) ==
    IF Len(s) > 0 /\ IsSpace(s[Len(s)])
    THEN TrimRight(SubSeq(s, 1, Len(s) - 1))
    ELSE s

\* strings.TrimSpace
TrimSpace(s) == TrimRight(TrimLeft(s))

\* strings.Split(s, sep) for a one-character separator: the pieces between
\* the separators, empty pieces included.
RECURSIVE SplitFrom(_, _, _)
SplitFrom(s, sep, cur) ==
    IF s = <<>> THEN <<cur>>
    ELSE IF Head(s) = sep THEN <<cur>> \o SplitFrom(Tail(s), sep, <<>>)
    ELSE SplitFrom(Tail(s), sep, Append(cur, Head(s)))

Split(s, sep) == SplitFrom(s, sep, <<>>)

\* io/fs.ValidPath: "." is the root; otherwise every slash-separated element
\* is non-empty and is neither "." nor "..".
ValidPathNoDotDot(name) ==
    \/ name = <<".">>
    \/ \A i \in 1..Len(Split(name, "/")) :
          Split(name, "/")[i] \notin {<<>>, <<".">>}

ValidPath(name) ==
    \/ name = <<".">>
    \/ \A i \in 1..Len(Split(name, "/")) :
          Split(name, "/")[i] \notin {<<>>, <<".">>, <<".", ".">>}

DigitVal(c) ==
    CASE c = "0" -> 0 [] c = "1" -> 1 [] c = "2" -> 2 [] c = "3" -> 3
      [] c = "4" -> 4 [] c = "5" -> 5 [] c = "6" -> 6 [] c = "7" -> 7
      [] c = "8" -> 8 [] c = "9" -> 9

IsDigit(c) == c \in {"0", "1", "2", "3", "4", "5", "6", "7", "8", "9"}

RECURSIVE DigitsValue(_, _)
DigitsValue(s, acc) ==
    IF s = <<>> THEN acc ELSE DigitsValue(Tail(s), 10 * acc + DigitVal(Head(s)))

\* strconv.Atoi: an optional sign and at least one decimal digit.  The
\* modelled texts are far shorter than the 19 digits at which it overflows.
Atoi(s) ==
    LET signed == Len(s) > 0 /\ Head(s) \in {"+", "-"}
        digits == IF signed THEN Tail(s) ELSE s
        ok     == Len(digits) > 0 /\ \A i \in 1..Len(digits) : IsDigit(digits[i])
    IN  IF ~ok THEN [ok |-> FALSE, val |-> 0]
        ELSE [ok |-> TRUE,
              val |-> IF signed /\ Head(s) = "-"
                      THEN 0 - DigitsValue(digits, 0)
                      ELSE DigitsValue(digits, 0)]

BoolTrue ==
    { <<"1">>, <<"t">>, <<"T">>, <<"T", "R", "U", "E">>,
      <<"t", "r", "u", "e">>, <<"T", "r", "u", "e">> }

BoolFalse ==
    { <<"0">>, <<"f">>, <<"F">>, <<"F", "A", "L", "S", "E">>,
      <<"f", "a", "l", "s", "e">>, <<"F", "a", "l", "s", "e">> }

\* strconv.ParseBool
ParseBool(s) ==
    IF s \in BoolTrue THEN [ok |-> TRUE, val |-> TRUE]
    ELSE IF s \in BoolFalse THEN [ok |-> TRUE, val |-> FALSE]
    ELSE [ok |-> FALSE, val |-> FALSE]

----------------------------------------------------------------------------
(* The process environment: a function from the names that are set *)

isEnvSet(e, name) == name \in DOMAIN e

Getenv(e, name) == IF name \in DOMAIN e THEN e[name] ELSE <<>>

Setenv(e, name, value) ==
    [n \in DOMAIN e \cup {name} |-> IF n = name THEN value ELSE e[n]]

UnsetenvNoop(e, name) == e

Unsetenv(e, name) == [n \in DOMAIN e \ {name} |-> e[n]]

fileEnvvar(key) == key \o fileVarSuffix

secretEnvvar(key) == key \o secretVarSuffix

----------------------------------------------------------------------------
(* Error kinds: which fmt.Errorf produced the error *)

NoError == "none"

MutualExclusivity == "MutualExclusivity"

InvalidPath == "InvalidPath"

FileOpenFailure == "FileOpenFailure"

FileStatFailure == "FileStatFailure"

FileReadFailure == "FileReadFailure"

EmptyFileContent == "EmptyFileContent"

MissingRequired == "MissingRequired"

InvalidInteger == "InvalidInteger"

InvalidBoolean == "InvalidBoolean"

UnsupportedType == "UnsupportedType"

----------------------------------------------------------------------------
(* The program *)

mutuallyExclusiveOffByOne(values) ==
    Cardinality({i \in 1..Len(values) : values[i]}) <= 2

\* count the true values; false as soon as the count exceeds one
mutuallyExclusive(values) ==
    Cardinality({i \in 1..Len(values) : values[i]}) <= 1

contains(elem, slice) == \E i \in 1..Len(slice) : slice[i] = elem

\* fd.Open(path) on the context's file system.  "." is the root directory;
\* a path the file system does not hold fails to open.
Open(c, path) ==
    IF path = <<".">> THEN [kind |-> "dir", data |-> <<>>]
    ELSE IF path \in DOMAIN c.files THEN c.files[path]
    ELSE [kind |-> "missing", data |-> <<>>]

\* f.Read(b) with len(b) = stat.Size(): a directory or a broken file fails;
\* a read into an empty buffer returns io.EOF on some file systems
\* (testing/fstest.MapFS) and nil on others (os.DirFS).
ReadFails(c, f) ==
    \/ f.kind \in {"dir", "readfail"}
    \/ f.kind = "regular" /\ Len(f.data) = 0 /\ c.zeroReadEOF

\* Yadsec.readFile: [text, err, opened], opened being the paths handed to Open
readFile(c, path0) ==
    LET path == TrimPrefixSlash(path0) IN
    IF ~ValidPath(path)
    THEN [text |-> <<>>, err |-> InvalidPath, opened |-> <<>>]
    ELSE LET f == Open(c, path) IN
         IF f.kind = "missing"
         THEN [text |-> <<>>, err |-> FileOpenFailure, opened |-> <<path>>]
         ELSE IF f.kind = "statfail"
         THEN [text |-> <<>>, err |-> FileStatFailure, opened |-> <<path>>]
         ELSE IF ReadFails(c, f)
         THEN [text |-> <<>>, err |-> FileReadFailure, opened |-> <<path>>]
         ELSE [text |-> TrimSpace(f.data), err |-> NoError, opened |-> <<path>>]

secretNameAlwaysValue(s, key) == s

\* the secret's name: the secret variable's value, or the key when it is empty
secretName(s, key) == IF s = <<>> THEN key ELSE s

RECURSIVE RunDeferred(_, _)
\* the deferred os.Unsetenv calls, last deferred first
RunDeferred(e, deferred) ==
    IF deferred = <<>> THEN e
    ELSE RunDeferred(Unsetenv(e, deferred[Len(deferred)]),
                     SubSeq(deferred, 1, Len(deferred) - 1))

ReturnCleanupOnSuccessOnly(e, deferred, text, error, opened) ==
    [text |-> text, err |-> error, opened |-> opened,
     env |-> IF error = NoError THEN RunDeferred(e, deferred) ELSE e]

\* a return of readEnvvar: the result, and the environment after the defers
Return(e, deferred, text, error, opened) ==
    [text |-> text, err |-> error, opened |-> opened,
     env |-> RunDeferred(e, deferred)]

\* Yadsec.readEnvvar: [text, err, opened, env]
readEnvvar(e, key, c) ==
    LET file   == fileEnvvar(key)
        secret == secretEnvvar(key)
    IN
    IF ~mutuallyExclusive(<<isEnvSet(e, key), isEnvSet(e, file), isEnvSet(e, secret)>>)
    THEN Return(e, <<>>, <<>>, MutualExclusivity, <<>>)
    ELSE IF isEnvSet(e, key)
    THEN Return(e, <<>>, Getenv(e, key), NoError, <<>>)
    ELSE
      LET inSecret == isEnvSet(e, secret)
          e1 == IF inSecret
                THEN Setenv(e, file,
                            c.secretsDir \o secretName(Getenv(e, secret), key))
                ELSE e
          d1 == IF inSecret THEN <<secret>> ELSE <<>>
      IN
      IF isEnvSet(e1, file)
      THEN LET d2 == Append(d1, file)
               r  == readFile(c, Getenv(e1, file))
           IN  IF r.err # NoError
               THEN Return(e1, d2, <<>>, r.err, r.opened)
               ELSE IF r.text = <<>>
               THEN Return(e1, d2, <<>>, EmptyFileContent, r.opened)
               ELSE Return(e1, d2, r.text, NoError, r.opened)
      ELSE Return(e1, d1, <<>>, NoError, <<>>)

parseEnvvarZeroing(kind, cur, text) ==
    CASE kind = "string" -> [err |-> NoError, val |-> text]
      [] kind = "int" ->
            IF Atoi(text).ok THEN [err |-> NoError, val |-> Atoi(text).val]
            ELSE [err |-> InvalidInteger, val |-> 0]
      [] kind = "bool" ->
            IF ParseBool(text).ok THEN [err |-> NoError, val |-> ParseBool(text).val]
            ELSE [err |-> InvalidBoolean, val |-> FALSE]
      [] OTHER -> [err |-> UnsupportedType, val |-> cur]

\* parseEnvvar: the error, and the field's value afterwards (cur when the
\* field is not written)
parseEnvvar(kind, cur, text) ==
    CASE kind = "string" -> [err |-> NoError, val |-> text]
      [] kind = "int" ->
            IF Atoi(text).ok THEN [err |-> NoError, val |-> Atoi(text).val]
            ELSE [err |-> InvalidInteger, val |-> cur]
      [] kind = "bool" ->
            IF ParseBool(text).ok THEN [err |-> NoError, val |-> ParseBool(text).val]
            ELSE [err |-> InvalidBoolean, val |-> cur]
      [] OTHER -> [err |-> UnsupportedType, val |-> cur]

\* One iteration of the loop of Yadsec.load on field idx: skip an untagged
\* field; otherwise resolve the key, return on an error, skip or fail an
\* empty text, parse a non-empty one into the field.
LoadField ==
    /\ status = "running"
    /\ idx <= Len(shape)
    /\ LET rawKey == shape[idx].tag IN
       IF rawKey = <<>>
       THEN /\ idx' = idx + 1
            /\ log' = Append(log, [tagged |-> FALSE, key |-> <<>>, keys |-> <<>>,
                                   pre |-> env, post |-> env, text |-> <<>>,
                                   rerr |-> NoError, err |-> NoError,
                                   opened |-> <<>>])
            /\ UNCHANGED <<env, fields, status, err>>
       ELSE
         LET keys   == Split(rawKey, sSep)
             envKey == keys[1]
             r      == readEnvvar(env, envKey, ctx)
             absent == r.err = NoError /\ r.text = <<>>
             p      == IF r.err = NoError /\ ~absent
                       THEN parseEnvvar(shape[idx].kind, fields[idx], r.text)
                       ELSE [err |-> NoError, val |-> fields[idx]]
             e      == IF r.err # NoError THEN r.err
                       ELSE IF absent
                       THEN (IF contains(sRequired, keys)
                             THEN MissingRequired ELSE NoError)
                       ELSE p.err
         IN /\ env' = r.env
            /\ fields' = [fields EXCEPT ![idx] = p.val]
            /\ log' = Append(log, [tagged |-> TRUE, key |-> envKey, keys |-> keys,
                                   pre |-> env, post |-> r.env, text |-> r.text,
                                   rerr |-> r.err, err |-> e,
                                   opened |-> r.opened])
            /\ IF e # NoError
               THEN /\ status' = "error"
                    /\ err' = e
                    /\ idx' = idx
               ELSE /\ idx' = idx + 1
                    /\ UNCHANGED <<status, err>>
    /\ UNCHANGED <<shape, ctx, env0>>

\* the loop is over: load returns nil
LoadReturn ==
    /\ status = "running"
    /\ idx > Len(shape)
    /\ status' = "ok"
    /\ UNCHANGED <<shape, ctx, env0, env, fields, idx, err, log>>

Next == LoadField \/ LoadReturn

----------------------------------------------------------------------------
(* Initial states *)

SeqsUpTo(S, n) == UNION {[1..k -> S] : k \in 0..n}

Unset == [set |-> FALSE, val |-> <<>>]

\* a variable's choices: unset, or set to one of the values
Choices(values) == {Unset} \cup {[set |-> TRUE, val |-> v] : v \in values}

\* the environment that sets each name whose choice is set
EnvOf(choice) ==
    [n \in {m \in DOMAIN choice : choice[m].set} |-> choice[n].val]

Start(sh, c, e) ==
    /\ shape = sh
    /\ ctx = c
    /\ env0 = e
    /\ env = e
    /\ fields = [i \in 1..Len(sh) |-> sh[i].prior]
    /\ idx = 1
    /\ status = "running"
    /\ err = NoError
    /\ log = <<>>

\* The fields a record is built from: a plain key, a required key, the key
\* "required" itself, a key that is another key's file variable, an untagged
\* field, and a field of a type parseEnvvar has no case for.
Decls ==
    { [tag |-> sSTR, kind |-> "string", prior |-> sOld],
      [tag |-> sSTR \o <<sSep>> \o sRequired, kind |-> "int", prior |-> 7],
      [tag |-> sRequired, kind |-> "bool", prior |-> FALSE],
      [tag |-> fileEnvvar(sSTR), kind |-> "string", prior |-> sOld],
      [tag |-> <<>>, kind |-> "string", prior |-> sOld],
      [tag |-> sSTR \o <<sSep>> \o sOptional, kind |-> "float", prior |-> 0] }

Shapes == {sh \in SeqsUpTo(Decls, MaxFields) : Len(sh) >= 1}

\* The root file system of Load (y.fs = nil, so os.DirFS("/")), holding two
\* files and two secrets.
RootFiles ==
    LET secrets == TrimPrefixSlash(defaultSecretsDir) IN
    (sX :> [kind |-> "regular", data |-> <<" ", "1", "\n">>])
    @@ (sOne :> [kind |-> "regular", data |-> <<>>])
    @@ (<<"r", "u", "n">> :> [kind |-> "dir", data |-> <<>>])
    @@ (secrets \o sSTR :> [kind |-> "regular", data |-> sX])
    @@ (secrets \o sX :> [kind |-> "regular", data |-> <<"1", " ">>])

\* Load: y.secretsDir = "/run/secrets/", y.fs = nil
LoadContext ==
    [secretsDir |-> defaultSecretsDir, files |-> RootFiles, zeroReadEOF |-> FALSE]

Values == {<<>>, sOne, sX}

\* A pass of Load over every record of up to MaxFields fields, in every
\* environment over the variables of the keys STR, STR__FILE and required.
Init ==
    \E sh \in Shapes :
    \E vDirect \in Choices(Values), vFile \in Choices(Values),
       vSecret \in Choices(Values), vReq \in Choices({sOne, sX}),
       vFileFile \in Choices({sX}) :
        Start(sh, LoadContext,
              EnvOf((sSTR :> vDirect)
                    @@ (fileEnvvar(sSTR) :> vFile)
                    @@ (secretEnvvar(sSTR) :> vSecret)
                    @@ (sRequired :> vReq)
                    @@ (fileEnvvar(fileEnvvar(sSTR)) :> vFileFile)))

Spec == Init /\ [][Next]_vars

PathAlphabet == {"/", ".", "x"}

Paths == SeqsUpTo(PathAlphabet, MaxPathLen)

Contents == SeqsUpTo({" ", "T"}, MaxContentLen)

FileEntries ==
    { [kind |-> k, data |-> <<>>] : k \in {"missing", "statfail", "readfail", "dir"} }
    \cup { [kind |-> "regular", data |-> d] : d \in Contents }

\* the file system that holds `entry` at the paths a value p can lead to and
\* `keyEntry` at the secret named after the key
FilesFor(dir, p, entry, keyEntry) ==
    LET at == {TrimPrefixSlash(p), TrimPrefixSlash(dir \o p)} \ {<<>>}
        keyPath == TrimPrefixSlash(dir \o sSTR)
        held == {q \in at \cup {keyPath} :
                    (IF q = keyPath THEN keyEntry ELSE entry).kind # "missing"}
    IN  [q \in held |-> IF q = keyPath THEN keyEntry ELSE entry]

\* A pass over the one-field record {Str string `env:"STR"`} with STR__FILE
\* or STR__SECRET set to every string of up to MaxPathLen characters, on
\* every file system state of the file it names.
InitRead ==
    \E p \in Paths, mode \in {"file", "secret"},
       dir \in {defaultSecretsDir, testSecretsDir},
       entry \in FileEntries,
       keyEntry \in {[kind |-> "missing", data |-> <<>>],
                     [kind |-> "regular", data |-> <<"K">>]},
       eof \in BOOLEAN :
        Start(<<[tag |-> sSTR, kind |-> "string", prior |-> sOld]>>,
              [secretsDir |-> dir, files |-> FilesFor(dir, p, entry, keyEntry),
               zeroReadEOF |-> eof],
              IF mode = "file" THEN (fileEnvvar(sSTR) :> p)
              ELSE (secretEnvvar(sSTR) :> p))

SpecRead == InitRead /\ [][Next]_vars

----------------------------------------------------------------------------
(* Vocabulary of the properties, read off the history *)

\* the option list of a directive: the comma-separated tokens after the key
Options(tag) == Tail(Split(tag, sSep))

\* how many of K, K__FILE, K__SECRET are present in e
PresentCount(e, key) ==
    Cardinality({key, fileEnvvar(key), secretEnvvar(key)} \cap DOMAIN e)

\* iteration l resolved a key whose only present variable was K__FILE
InFileMode(l) ==
    /\ l.tagged
    /\ PresentCount(l.pre, l.key) = 1
    /\ fileEnvvar(l.key) \in DOMAIN l.pre

\* iteration l resolved a key whose only present variable was K__SECRET
InSecretMode(l) ==
    /\ l.tagged
    /\ PresentCount(l.pre, l.key) = 1
    /\ secretEnvvar(l.key) \in DOMAIN l.pre

\* the resolved text of iteration l is absent
Absent(l) == l.tagged /\ l.rerr = NoError /\ l.text = <<>>

\* the path iteration l reads: K__FILE's value, or secretsDir + secret name
PathOf(l) ==
    IF InFileMode(l) THEN l.pre[fileEnvvar(l.key)]
    ELSE ctx.secretsDir \o
         (IF l.pre[secretEnvvar(l.key)] = <<>> THEN l.key
          ELSE l.pre[secretEnvvar(l.key)])

HasElement(path, elem) ==
    \E i \in 1..Len(Split(path, "/")) : Split(path, "/")[i] = elem

\* the ill-formed paths the claim lists
IllFormed(path) ==
    \/ path = <<>>
    \/ HasElement(path, <<".", ".">>)
    \/ HasElement(path, <<".">>)
    \/ Head(path) = "/"
    \/ path[Len(path)] = "/"

\* a path that stays under the root it is opened against
UnderRoot(path) ==
    /\ path # <<>>
    /\ Head(path) # "/"
    /\ ~HasElement(path, <<".", ".">>)

\* the variables iteration l may clear
Cleared(l) ==
    IF InSecretMode(l) THEN {secretEnvvar(l.key), fileEnvvar(l.key)}
    ELSE IF InFileMode(l) THEN {fileEnvvar(l.key)}
    ELSE {}

ClearedUpTo(n) == UNION {Cleared(log[j]) : j \in 1..n}

----------------------------------------------------------------------------
(* C1: whenever a key is resolved while two or more of K, K__FILE and      *)
(* K__SECRET are present, whatever their values, the resolution fails with *)
(* MutualExclusivity, load returns that error and K's field is not written *)
C1_MutualExclusivity ==
    \A i \in 1..Len(log) :
        (log[i].tagged /\ PresentCount(log[i].pre, log[i].key) >= 2)
        => /\ log[i].rerr = MutualExclusivity
           /\ status = "error"
           /\ err = MutualExclusivity
           /\ idx = i
           /\ fields[i] = shape[i].prior

C1_Witness ==
    /\ Len(log) = 2
    /\ PresentCount(log[2].pre, log[2].key) = 2
    /\ secretEnvvar(log[2].key) \in DOMAIN log[2].pre
    /\ log[2].pre[secretEnvvar(log[2].key)] = <<>>
    /\ status = "error"

(* C2: when a resolution that entered secret mode returns, K__SECRET and   *)
(* the synthesized K__FILE are absent from the environment, and when one   *)
(* that entered file mode returns, K__FILE is absent, on success and on    *)
(* every failure                                                           *)
C2_Cleanup ==
    \A i \in 1..Len(log) :
        /\ InSecretMode(log[i]) =>
              /\ secretEnvvar(log[i].key) \notin DOMAIN log[i].post
              /\ fileEnvvar(log[i].key) \notin DOMAIN log[i].post
        /\ InFileMode(log[i]) =>
              fileEnvvar(log[i].key) \notin DOMAIN log[i].post

C2_Witness ==
    /\ Len(log) = 1
    /\ InSecretMode(log[1])
    /\ log[1].rerr = FileStatFailure
    /\ log[1].opened # <<>>
    /\ DOMAIN env = {}

(* C3: a field whose resolved text is absent fails with MissingRequired    *)
(* exactly when `required` is among the tokens after the primary key, and  *)
(* a non-empty text never fails with MissingRequired                       *)
C3_RequiredIffOption ==
    \A i \in 1..Len(log) :
        /\ Absent(log[i]) =>
              ((log[i].err = MissingRequired)
                  <=> contains(sRequired, Options(shape[i].tag)))
        /\ (log[i].tagged /\ log[i].rerr = NoError /\ log[i].text # <<>>) =>
              log[i].err # MissingRequired

(* C4: a field without the `required` option whose resolved text is absent *)
(* keeps its prior value, and the pass continues with the next field       *)
C4_AbsentSkipped ==
    \A i \in 1..Len(log) :
        (Absent(log[i]) /\ ~contains(sRequired, Options(shape[i].tag)))
        => /\ fields[i] = shape[i].prior
           /\ log[i].err = NoError
           /\ idx > i

(* C5: with only K__SECRET set, resolution yields the value or error that  *)
(* file-mode resolution yields for secretsDir + name, name being the value *)
(* of K__SECRET, or K when that value is empty                             *)
C5_SecretIsFileMode ==
    \A i \in 1..Len(log) :
        InSecretMode(log[i]) =>
            LET s    == log[i].pre[secretEnvvar(log[i].key)]
                name == IF s = <<>> THEN log[i].key ELSE s
                ref  == readEnvvar((fileEnvvar(log[i].key) :> ctx.secretsDir \o name),
                                   log[i].key, ctx)
            IN  /\ log[i].text = ref.text
                /\ log[i].rerr = ref.err
                /\ log[i].opened = ref.opened

C5_Witness ==
    /\ Len(log) = 1
    /\ InSecretMode(log[1])
    /\ log[1].pre[secretEnvvar(sSTR)] = <<>>
    /\ log[1].text = <<"K">>
    /\ fields[1] = <<"K">>

(* C6: with only K__FILE set to the path of an existing readable file, the *)
(* resolution returns the trimmed content when it is non-empty and fails   *)
(* with EmptyFileContent when the content is empty or all whitespace       *)
C6_FileContent ==
    \A i \in 1..Len(log) :
        LET q == TrimPrefixSlash(PathOf(log[i])) IN
        (/\ InFileMode(log[i])
         /\ ~IllFormed(q)
         /\ q \in DOMAIN ctx.files
         /\ ctx.files[q].kind = "regular")
        => LET t == TrimSpace(ctx.files[q].data) IN
           /\ t # <<>> => /\ log[i].text = t
                          /\ log[i].err = NoError
                          /\ fields[i] = t
           /\ t = <<>> => /\ log[i].rerr = EmptyFileContent
                          /\ status = "error"

(* C7: the fields are processed in declaration order; when a field fails,  *)
(* load returns that field's error at once, every earlier field that       *)
(* resolved to a non-empty text holds the value written to it, the failing *)
(* field and every later field hold their prior values, and no later field *)
(* is resolved: none has a history entry, and nothing but the variables of *)
(* the fields up to the failing one was cleared                            *)
C7_StopAtFirstError ==
    /\ Len(log) <= Len(shape)
    /\ \A j \in 1..Len(log) :
          /\ log[j].tagged = (shape[j].tag # <<>>)
          /\ log[j].tagged => log[j].key = Split(shape[j].tag, sSep)[1]
    /\ status = "error" =>
          /\ Len(log) = idx
          /\ log[idx].err = err
          /\ err # NoError
          /\ env = log[idx].post
          /\ \A j \in 1..(idx - 1) :
                /\ log[j].err = NoError
                /\ IF log[j].tagged /\ log[j].text # <<>>
                   THEN fields[j] =
                          parseEnvvar(shape[j].kind, shape[j].prior, log[j].text).val
                   ELSE fields[j] = shape[j].prior
          /\ \A j \in idx..Len(shape) : fields[j] = shape[j].prior
          /\ DOMAIN env0 \ DOMAIN env \subseteq ClearedUpTo(idx)

C7_Witness ==
    /\ status = "error"
    /\ idx = 2
    /\ err = InvalidInteger
    /\ fields[1] = sX
    /\ fields[2] = 7
    /\ Len(shape) = 2

(* C8: in a pass that meets no error, the text resolved for each field is  *)
(* the text that resolving that field alone against the initial            *)
(* environment yields                                                      *)
C8_NoInterference ==
    status = "ok" =>
        \A i \in 1..Len(log) :
            log[i].tagged =>
                /\ readEnvvar(env0, log[i].key, ctx).err = NoError
                /\ log[i].text = readEnvvar(env0, log[i].key, ctx).text

(* C9 as stated: in file or secret mode the path has one leading separator *)
(* stripped; if the result is empty, has a '..' or '.' element, or begins  *)
(* or ends with a separator, the resolution fails with InvalidPath and     *)
(* opens nothing; every path opened stays under the root                   *)
C9_PathValidatedAsStated ==
    \A i \in 1..Len(log) :
        (InFileMode(log[i]) \/ InSecretMode(log[i])) =>
            LET q == TrimPrefixSlash(PathOf(log[i])) IN
            /\ IllFormed(q) => (log[i].rerr = InvalidPath /\ log[i].opened = <<>>)
            /\ log[i].opened \in {<<>>, <<q>>}
            /\ \A k \in 1..Len(log[i].opened) : UnderRoot(log[i].opened[k])

(* C9 amended: the same, except that the path "." (the root itself) is     *)
(* well-formed: it is opened, under the root, and the read of it fails     *)
C9_PathValidated ==
    \A i \in 1..Len(log) :
        (InFileMode(log[i]) \/ InSecretMode(log[i])) =>
            LET q == TrimPrefixSlash(PathOf(log[i])) IN
            /\ (IllFormed(q) /\ q # <<".">>) =>
                  (log[i].rerr = InvalidPath /\ log[i].opened = <<>>)
            /\ q = <<".">> =>
                  (log[i].rerr = FileReadFailure /\ log[i].opened = <<q>>)
            /\ log[i].opened \in {<<>>, <<q>>}
            /\ \A k \in 1..Len(log[i].opened) : UnderRoot(log[i].opened[k])

C9_Witness ==
    /\ Len(log) = 1
    /\ InSecretMode(log[1])
    /\ log[1].pre[secretEnvvar(sSTR)] = <<".", ".", "/">>
    /\ log[1].rerr = InvalidPath
    /\ log[1].opened = <<>>
    /\ status = "error"

\* the keys the record declares
DeclaredKeys ==
    {Split(shape[i].tag, sSep)[1] : i \in {j \in 1..Len(shape) : shape[j].tag # <<>>}}

\* the pass only removes variables, and only K__FILE and K__SECRET of keys
\* that entered file or secret mode; MutualExclusivity changes nothing
OnlyRemoves ==
    /\ \A n \in DOMAIN env : n \in DOMAIN env0 /\ env[n] = env0[n]
    /\ DOMAIN env0 \ DOMAIN env \subseteq ClearedUpTo(Len(log))
    /\ \A i \in 1..Len(log) :
          log[i].rerr = MutualExclusivity => log[i].post = log[i].pre

(* C10 as stated: when the pass has returned, every variable of the final  *)
(* environment was in the initial one with the same value, only K__FILE    *)
(* and K__SECRET of keys that entered file or secret mode are missing, the *)
(* direct variable of every declared key is as it was, and a resolution    *)
(* that failed with MutualExclusivity left the environment as it found it  *)
C10_OnlyRemovesAsStated ==
    status # "running" =>
        /\ OnlyRemoves
        /\ \A k \in DeclaredKeys : (k \in DOMAIN env) = (k \in DOMAIN env0)

(* C10 amended: the same, except that the direct variable of a declared    *)
(* key K may have been unset when K is itself the K'__FILE or K'__SECRET   *)
(* name of a declared key K' whose resolution entered file or secret mode  *)
C10_OnlyRemoves ==
    status # "running" =>
        /\ OnlyRemoves
        /\ \A k \in DeclaredKeys :
              \/ (k \in DOMAIN env) = (k \in DOMAIN env0)
              \/ /\ k \in DOMAIN env0
                 /\ \E j \in 1..Len(log) :
                       /\ log[j].key \in DeclaredKeys
                       /\ k \in Cleared(log[j])
                       /\ k \in {fileEnvvar(log[j].key), secretEnvvar(log[j].key)}

C10_Witness ==
    /\ status = "ok"
    /\ Len(log) = 2
    /\ InSecretMode(log[1])
    /\ log[2].key = fileEnvvar(sSTR)
    /\ secretEnvvar(sSTR) \in DOMAIN env0
    /\ DOMAIN env = DOMAIN env0 \ {secretEnvvar(sSTR)}

====
